---- MODULE Spec2Model ----
(***************************************************************************)
(* Model of improveDoc: the Markdown section model (parse_sections,        *)
(* reassemble, extract_final_content), the construction of the             *)
(* ContentEnhancer and one run of ContentEnhancer.enhance_content, in the  *)
(* two versions of the orchestrator found in the repository                *)
(* (lib/enhancer.py and src/lib/enhancer.py).                              *)
(*                                                                         *)
(* A text is a sequence of one-character strings; offsets named start and  *)
(* end are Python offsets (0-based, end exclusive), so that the Python     *)
(* slice s[a:b] is SubSeq(s, a + 1, b).                                    *)
(***************************************************************************)
EXTENDS Integers, Sequences, FiniteSets, TLC

(***************************************************************************)
(* Characters and text helpers                                             *)
(***************************************************************************)
NL == "\n"
SP == " "
HASH == "#"
\* the backquote character (a string of the module cannot hold one)
TICK == "bq"

\* str.strip() and the regular expression class \s, over the alphabet of the model
IsSpace(c) == c \in {SP, NL}

\* n copies of the character c
Rep(c, n) == [i \in 1..n |-> c]

\* index of the first character that is not white space, Len(s) + 1 when none
FirstNonSpace(s) ==
    CHOOSE i \in 1..(Len(s) + 1) :
        /\ \A k \in 1..(i - 1) : IsSpace(s[k])
        /\ i <= Len(s) => ~IsSpace(s[i])

\* index of the last character that is not white space, 0 when none
LastNonSpace(s) ==
    CHOOSE j \in 0..Len(s) :
        /\ \A k \in (j + 1)..Len(s) : IsSpace(s[k])
        /\ j >= 1 => ~IsSpace(s[j])

\* str.strip()
Strip(s) == SubSeq(s, FirstNonSpace(s), LastNonSpace(s))

\* s[i..] starts with the text t (i is a 1-based index)
StartsAt(s, i, t) ==
    /\ i + Len(t) - 1 <= Len(s)
    /\ \A k \in 1..Len(t) : s[i + k - 1] = t[k]

\* the Python test  t in s
Contains(s, t) == \E i \in 1..(Len(s) - Len(t) + 1) : StartsAt(s, i, t)

\* str.startswith
StartsWith(s, t) == StartsAt(s, 1, t)

\* length of the longest run of marker characters at s[i..] (greedy #+)
HashRun(s, i) ==
    IF i > Len(s) THEN 0
    ELSE CHOOSE n \in 0..(Len(s) - i + 1) :
            /\ \A k \in 0..(n - 1) : s[i + k] = HASH
            /\ i + n <= Len(s) => s[i + n] # HASH

\* length of the longest run of white space at s[i..] (greedy \s*)
SpaceRun(s, i) ==
    IF i > Len(s) THEN 0
    ELSE CHOOSE n \in 0..(Len(s) - i + 1) :
            /\ \A k \in 0..(n - 1) : IsSpace(s[i + k])
            /\ i + n <= Len(s) => ~IsSpace(s[i + n])

\* index of the first newline at or after i, Len(s) + 1 when there is none
LineEnd(s, i) ==
    IF i > Len(s) THEN Len(s) + 1
    ELSE CHOOSE e \in i..(Len(s) + 1) :
            /\ \A k \in i..(e - 1) : s[k] # NL
            /\ e <= Len(s) => s[e] = NL

\* str.join with a newline separator
RECURSIVE Join(_)
Join(parts) ==
    IF parts = <<>> THEN <<>>
    ELSE IF Len(parts) = 1 THEN parts[1]
    ELSE parts[1] \o <<NL>> \o Join(Tail(parts))

(***************************************************************************)
(* MarkdownProcessor.parse_sections                                        *)
(***************************************************************************)
\* the end marker appended to the document: "\n# __END__"
EndMarker == <<NL, HASH, SP, "_", "_", "E", "N", "D", "_", "_">>
EndTag == <<"_", "_", "E", "N", "D", "_", "_">>

IntroId == -1
DefaultPosition == 999

\* one match of (?m)^(#+)\s+(.*?)$ at Python offset i, when there is one
HeaderMatches(s, i) ==
    /\ i < Len(s)
    /\ (i = 0 \/ s[i] = NL)
    /\ HashRun(s, i + 1) >= 1
    /\ SpaceRun(s, i + 1 + HashRun(s, i + 1)) >= 1

\* index of the first character after the markers and the white space
TitleStart(s, i) ==
    i + 1 + HashRun(s, i + 1) + SpaceRun(s, i + 1 + HashRun(s, i + 1))

\* the entry of header_positions for a match at offset i whose title starts
\* at index q and whose line ends before index e
HeaderRecord(s, i, q, e) ==
    [start |-> i, end |-> e - 1, level |-> HashRun(s, i + 1),
     text |-> Strip(SubSeq(s, q, e - 1)),
     full_header |-> SubSeq(s, i + 1, e - 1)]

HeaderAt(s, i) ==
    HeaderRecord(s, i, TitleStart(s, i), LineEnd(s, TitleStart(s, i)))

\* the least element of a non-empty set of numbers
MinOf(S) == CHOOSE x \in S : \A y \in S : x <= y

\* the offsets at or after i where the heading pattern matches
HeaderStarts(s, i) == {j \in i..(Len(s) - 1) : HeaderMatches(s, j)}

\* re.finditer: the non-overlapping matches, scanning from Python offset i;
\* the scan resumes at the end of each match
RECURSIVE FindHeaders(_, _)
HeadersAfter(s, m) == <<m>> \o FindHeaders(s, m.end)

HeadersFrom(s, starts) ==
    IF starts = {} THEN <<>> ELSE HeadersAfter(s, HeaderAt(s, MinOf(starts)))

FindHeaders(s, i) == HeadersFrom(s, HeaderStarts(s, i))

\* the loop that deletes every section whose title contains __END__
RemoveEndSections(secs) ==
    SelectSeq(secs, LAMBDA sec : ~Contains(sec.title, EndTag))

\* IntroSection without the test that the preamble is not blank
IntroSectionAlways(intro_content) ==
    << [id |-> IntroId, level |-> 0, title |-> <<>>,
        content |-> intro_content, full_header |-> <<>>,
        original_position |-> DefaultPosition] >>

\* the preamble entry, when the text before the first header is not blank
IntroSection(intro_content) ==
    IF intro_content # <<>>
    THEN << [id |-> IntroId, level |-> 0, title |-> <<>>,
             content |-> intro_content, full_header |-> <<>>,
             original_position |-> DefaultPosition] >>
    ELSE <<>>

IntroContent(c, hp) ==
    IF Len(hp) > 0 /\ hp[1].start > 0
    THEN Strip(SubSeq(c, 1, hp[1].start)) ELSE <<>>

\* one section per header but the last one
HeaderSections(c, hp) ==
    [k \in 1..(Len(hp) - 1) |->
        [id |-> k - 1, level |-> hp[k].level, title |-> hp[k].text,
         content |-> Strip(SubSeq(c, hp[k].end + 1, hp[k + 1].start)),
         full_header |-> hp[k].full_header,
         original_position |-> k - 1]]

\* the mapping built from content_with_end_marker and header_positions
SectionsOf(c, hp) ==
    RemoveEndSections(IntroSection(IntroContent(c, hp)) \o HeaderSections(c, hp))

ParseWithMarker(c) == SectionsOf(c, FindHeaders(c, 0))

ParseSections(markdown_content) == ParseWithMarker(markdown_content \o EndMarker)

(***************************************************************************)
(* MarkdownProcessor.reassemble                                            *)
(***************************************************************************)
\* list.sort(key=original_position): a stable insertion sort
RECURSIVE InsertByPosition(_, _)
InsertByPosition(sorted, sec) ==
    IF sorted = <<>> THEN <<sec>>
    ELSE IF Head(sorted).original_position <= sec.original_position
         THEN <<Head(sorted)>> \o InsertByPosition(Tail(sorted), sec)
         ELSE <<sec>> \o sorted

\* SortByPosition, had the sections been left in the order of the mapping
SortAsInserted(secs) == secs

RECURSIVE SortByPosition(_)
SortByPosition(secs) ==
    IF secs = <<>> THEN <<>>
    ELSE InsertByPosition(SortByPosition(SubSeq(secs, 1, Len(secs) - 1)),
                          secs[Len(secs)])

\* '#' * level + ' ' + title
HeaderLine(sec) == Rep(HASH, sec.level) \o <<SP>> \o sec.title

\* EmitBlock without the empty line appended after each section
EmitBlockNoBlank(header, content) ==
    (IF header # <<>> THEN <<header>> ELSE <<>>)
        \o (IF content # <<>> THEN <<content>> ELSE <<>>)

\* the lines appended to result for one entry of sorted_sections
EmitBlock(header, content) ==
    (IF header # <<>> THEN <<header>> ELSE <<>>)
        \o (IF content # <<>> THEN <<content>> ELSE <<>>)
        \o << <<>> >>

RECURSIVE EmitAll(_)
EmitAll(entries) ==
    IF entries = <<>> THEN <<>>
    ELSE EmitBlock(Head(entries).header, Head(entries).content)
            \o EmitAll(Tail(entries))

IntroEntries(intro) ==
    [k \in 1..Len(intro) |-> [header |-> <<>>, content |-> intro[k].content]]

HeadedEntries(others) ==
    [k \in 1..Len(others) |->
        [header |-> HeaderLine(others[k]), content |-> others[k].content]]

\* sorted_sections: the preamble first, the others by original position
SortedSections(sections) ==
    IntroEntries(SelectSeq(sections, LAMBDA sec : sec.id = IntroId))
        \o HeadedEntries(SortByPosition(
               SelectSeq(sections, LAMBDA sec : sec.id # IntroId)))

Reassemble(sections) == Strip(Join(EmitAll(SortedSections(sections))))

(***************************************************************************)
(* MarkdownProcessor.extract_final_content                                 *)
(***************************************************************************)
Fence == <<TICK, TICK, TICK>>
MarkdownTag == <<"m", "a", "r", "k", "d", "o", "w", "n">>

\* the tail  \s* followed by the closing fence  matches at index e
ClosesAt(s, e) == StartsAt(s, e + SpaceRun(s, e), Fence)

\* the lazy group ([\s\S]*?): the first index at or after e where the tail
\* matches, 0 when there is none
CloseIndexes(s, e) == {j \in e..Len(s) : ClosesAt(s, j)}

FirstOrNone(S) == IF S = {} THEN 0 ELSE MinOf(S)

FindClose(s, e) == FirstOrNone(CloseIndexes(s, e))

\* start of the group for an opening fence at index i: after the fence, the
\* optional tag and the white space
TagLength(s, i) == IF StartsAt(s, i, MarkdownTag) THEN Len(MarkdownTag) ELSE 0

GroupStart(s, i) == i + 3 + TagLength(s, i + 3) + SpaceRun(s, i + 3 + TagLength(s, i + 3))

\* the pattern matches at index i
BlockMatches(s, i) == StartsAt(s, i, Fence) /\ FindClose(s, GroupStart(s, i)) # 0

\* the indexes at or after i where the pattern matches
BlockStarts(s, i) == {j \in i..(Len(s) - 2) : BlockMatches(s, j)}

FenceStarts(s, i) == {j \in i..(Len(s) - 2) : StartsAt(s, j, Fence)}

UnclosedFrom(s, opens) ==
    IF opens = {} THEN <<>> ELSE <<SubSeq(s, GroupStart(s, MinOf(opens)), Len(s))>>

\* FindCodeBlocks for a pattern without its closing fence: the group runs to
\* the end of the text
FindCodeBlocksUnclosed(s, i) == UnclosedFrom(s, FenceStarts(s, i))

\* re.findall of the fenced-block pattern, scanning from index i: the list of
\* the captured groups; the scan resumes after the closing fence
RECURSIVE FindCodeBlocks(_, _)
\* the group from index c to the closing tail at index e, then the other blocks
BlockAndRest(s, c, e) ==
    <<SubSeq(s, c, e - 1)>> \o FindCodeBlocks(s, e + SpaceRun(s, e) + 3)

BlockAt(s, c) == BlockAndRest(s, c, FindClose(s, c))

BlocksFrom(s, opens) ==
    IF opens = {} THEN <<>> ELSE BlockAt(s, GroupStart(s, MinOf(opens)))

FindCodeBlocks(s, i) == BlocksFrom(s, BlockStarts(s, i))

\* Longer, had the last block been kept whatever its length
LongerLast(a, b) == b

\* max(code_blocks, key=len): the first block of maximal length
Longer(a, b) == IF Len(a) >= Len(b) THEN a ELSE b

RECURSIVE LongestBlock(_)
LongestBlock(blocks) ==
    IF Len(blocks) = 1 THEN blocks[1]
    ELSE Longer(blocks[1], LongestBlock(Tail(blocks)))

\* final_content, from the text and the blocks found in it
FinalContent(result_text, code_blocks) ==
    IF code_blocks # <<>> THEN LongestBlock(code_blocks) ELSE result_text

ExtractFinalContent(result_text) ==
    Strip(FinalContent(result_text, FindCodeBlocks(result_text, 1)))

(***************************************************************************)
(* State                                                                   *)
(***************************************************************************)
VARIABLES
    pc,                  \* position of the caller: new, refused, ready, kickoff, post, except, done
    version,             \* which orchestrator runs: "lib" (lib/enhancer.py) or "src_lib" (src/lib/enhancer.py)
    api_key, model,      \* the arguments of ContentEnhancer.__init__
    env_api_key,         \* the environment variable CREW_API_KEY
    env_model,           \* the environment variable CREW_MODEL
    config,              \* self.config: [api_key, model]
    llm,                 \* self.llm: the capability every agent is created with
    markdown_content,    \* the argument of enhance_content
    sections,            \* the snapshot parsed at run start
    tasks,               \* crew.tasks, in submission order
    task_to_section_map, \* Link task number -> [section_id, section_data]
    output,              \* task.output of every task of crew.tasks
    running,             \* index of the task the capability is executing, 0 when none
    started,             \* indexes of the tasks started so far, in order
    result,              \* the text enhance_content returned
    outcome,             \* none, returned, raised
    path,                \* which return statement produced the result
    recovered_content,   \* the reassembly computed by the recovery path
    text, parsed, out, out2, step,  \* the section model applied to one text
    search_cache,        \* lru_cache of _cached_search: query -> titles
    page_cache,          \* lru_cache of _cached_page: the titles whose page object is kept
    summary_cache,       \* lru_cache of _cached_summary: title -> the page summarised
    content_loaded,      \* the cached page objects whose content has been fetched
    looked_up,           \* the (operation, title) pairs a tool was called with
    last,                \* what the last tool call did and returned
    doc_title, subject, instructions,  \* the arguments of create_content
    kickoff_result,      \* what crew.kickoff() of create_content gives
    created,             \* what create_content returned
    creator_step         \* idle, input, returned, raised

pipeVars == <<pc, version, api_key, model, env_api_key, env_model, config, llm,
              markdown_content, sections, tasks, task_to_section_map, output,
              running, started, result, outcome, path, recovered_content>>
textVars == <<text, parsed, out, out2, step>>
toolVars == <<search_cache, page_cache, summary_cache, content_loaded, looked_up, last>>
creatorVars == <<doc_title, subject, instructions, kickoff_result, created, creator_step>>
vars == <<pipeVars, textVars, toolVars, creatorVars>>

\* Python None for a configuration string
None == "<None>"
\* Python None for a text (no text equals it: a text holds single characters)
NoOutput == <<"None">>

(***************************************************************************)
(* Bounds and sampled inputs                                               *)
(***************************************************************************)
MaxHeadings == 2
LongBody == 40
MaxFrags == 4

Hello == <<"H", "e", "l", "l", "o", ".">>
Preface == <<"P", "r", "e", "f", "a", "c", "e", ".">>
HeadingLines == << <<"#", " ", "T", "i", "t", "l", "e">>,
                   <<"#", "#", " ", "I", "n", "t", "r", "o">>,
                   <<"#", "#", " ", "F", "a", "c", "t", "s">>,
                   <<"#", "#", "#", " ", "N", "o", "t", "e", "s">> >>
HeadingLine(k) == HeadingLines[((k - 1) % Len(HeadingLines)) + 1]

Bodies == { <<>>, Hello, Rep("a", LongBody) }
Preambles == { <<>>, Preface }

\* blocks separated by one blank line
RECURSIVE JoinBlank(_)
JoinBlank(parts) ==
    IF parts = <<>> THEN <<>>
    ELSE IF Len(parts) = 1 THEN parts[1]
    ELSE parts[1] \o <<NL, NL>> \o JoinBlank(Tail(parts))

RECURSIVE HeadedBlocks(_, _)
HeadedBlocks(bs, k) ==
    IF k > Len(bs) THEN <<>>
    ELSE <<HeadingLine(k)>> \o (IF bs[k] # <<>> THEN <<bs[k]>> ELSE <<>>)
            \o HeadedBlocks(bs, k + 1)

Doc(pre, bs, trailing) ==
    JoinBlank((IF pre # <<>> THEN <<pre>> ELSE <<>>) \o HeadedBlocks(bs, 1))
        \o (IF trailing THEN <<NL>> ELSE <<>>)

Documents ==
    { Doc(pre, bs, t) : pre \in Preambles,
                        bs \in UNION { [1..n -> Bodies] : n \in 0..MaxHeadings },
                        t \in BOOLEAN }

\* a text wrapped in a fenced block tagged markdown
Fenced(t) == Fence \o MarkdownTag \o <<NL>> \o t \o <<NL>> \o Fence

PlaceholderText == <<"<", "!", "-", "-", " ", "e", "m", "p", "t", "y", " ", "-", "-", ">">>

\* the document with every body replaced by a placeholder comment
PlaceholderDoc(d) ==
    LET ps == ParseSections(d)
    IN  Reassemble([k \in 1..Len(ps) |-> [ps[k] EXCEPT !.content = PlaceholderText]])

ImprovedText == Rep("y", 25)

\* the sections ps with the first non-empty body improved and every other
\* body replaced by a placeholder comment
PartlyImprovedSections(ps, first) ==
    [k \in 1..Len(ps) |->
        [ps[k] EXCEPT !.content = IF k = first THEN ImprovedText ELSE PlaceholderText]]

FirstWithBody(ps) ==
    IF \E k \in 1..Len(ps) : ps[k].content # <<>>
    THEN MinOf({k \in 1..Len(ps) : ps[k].content # <<>>}) ELSE 0

PartlyImprovedOf(ps) == Reassemble(PartlyImprovedSections(ps, FirstWithBody(ps)))

PartlyImproved(d) == PartlyImprovedOf(ParseSections(d))

\* the placeholder document followed by a section whose title is the end tag
EndTitleDoc(d) ==
    PlaceholderDoc(d) \o <<NL, NL, HASH, HASH, SP>> \o EndTag \o <<NL, NL>>
        \o Rep("z", 25)

\* the placeholder document with its headed sections in the reverse order
ReversedSections(ps, rs) ==
    SelectSeq(ps, LAMBDA sec : sec.id = IntroId)
        \o [k \in 1..Len(rs) |->
              [rs[Len(rs) + 1 - k] EXCEPT !.original_position = k - 1]]

ReorderedOf(ps) ==
    Reassemble(ReversedSections(ps, SelectSeq(ps, LAMBDA sec : sec.id # IntroId)))

ReorderedDoc(d) == ReorderedOf(ParseSections(PlaceholderDoc(d)))

\* texts the capability may produce for a Link task and for the Edit task
LinkOutputs == { <<>>, Rep("s", 10), Rep("b", 11), Fenced(Rep("c", 25)) }
EditOutputs(d) ==
    { <<>>, Rep("x", 50), Fenced(d), PlaceholderDoc(d), PartlyImproved(d),
      EndTitleDoc(d), ReorderedDoc(d) }
\* the orchestrator never reads the output of an Enrich or a Verify task
StageOutput == Rep("e", 12)

(***************************************************************************)
(* Config and ContentEnhancer.__init__                                     *)
(***************************************************************************)
DefaultModel == "openrouter/openai/gpt-4.1-mini"
FallbackModel == "openai/gpt-3.5-turbo"

\* Python truth value of an optional string
Truthy(v) == v # None /\ v # ""

\* a or b
OrElse(a, b) == IF Truthy(a) THEN a ELSE b

\* Config.__init__
MakeConfig(key, mdl, envKey, envModel) ==
    [api_key |-> OrElse(key, envKey),
     model   |-> OrElse(mdl, IF envModel = None THEN DefaultModel ELSE envModel)]

\* Validate, had it accepted every configuration
ValidateAlways(cfg) == TRUE

\* Config.validate
Validate(cfg) == Truthy(cfg.api_key)

\* the capability __init__ binds: the configured one, or the simplified one
\* when the construction of the configured one raised
BoundLLM(cfg, llmRaises) ==
    IF llmRaises THEN [model |-> FallbackModel, api_key |-> None]
    ELSE [model |-> cfg.model, api_key |-> cfg.api_key]

NoLLM == [model |-> None, api_key |-> None]
NoConfig == [api_key |-> None, model |-> None]

(***************************************************************************)
(* ContentEnhancer.enhance_content: the task graph                         *)
(***************************************************************************)
MaxProcessedSections == 5
MinSectionLength == 20
MinResultLength == 50
MinTaskContentLength == 10
PlaceholderMark == <<"<", "!", "-", "-">>

Min(a, b) == IF a <= b THEN a ELSE b

\* section_items: the sections sorted by original_position (the preamble has
\* none and sorts with the default), cut to five by lib/enhancer.py
FirstItems(ver, sorted) ==
    IF ver = "lib"
    THEN SubSeq(sorted, 1, Min(MaxProcessedSections, Len(sorted)))
    ELSE sorted

SectionItems(ver, secs) == FirstItems(ver, SortByPosition(secs))

\* ProcessedItems without the test that skips a section with a blank body
ProcessedItemsAll(ver, secs) == SectionItems(ver, secs)

\* the sections the loop builds a chain for: the ones with a non-blank body
ProcessedItems(ver, secs) ==
    SelectSeq(SectionItems(ver, secs), LAMBDA sec : Strip(sec.content) # <<>>)

TaskId(t) == <<t.kind, t.n>>

EnrichmentTasks(items, cap) ==
    [k \in 1..Len(items) |->
        [kind |-> "Enrich", n |-> k, context |-> {}, llm |-> cap]]

VerificationTasks(ver, items, cap) ==
    IF ver = "lib"
    THEN [k \in 1..Len(items) |->
            [kind |-> "Verify", n |-> k, context |-> {<<"Enrich", k>>}, llm |-> cap]]
    ELSE <<>>

LinkingTasks(ver, items, cap) ==
    [k \in 1..Len(items) |->
        [kind |-> "Link", n |-> k,
         context |-> {<<(IF ver = "lib" THEN "Verify" ELSE "Enrich"), k>>},
         llm |-> cap]]

\* _create_editing_task: context=linking_tasks
EditingTask(linking, cap) ==
    [kind |-> "Edit", n |-> 0,
     context |-> {TaskId(linking[k]) : k \in 1..Len(linking)}, llm |-> cap]

\* the Link tasks first, then the Enrich and Verify tasks, then the Edit task
LinkFirst(enrichment, verification, linking, cap) ==
    linking \o enrichment \o verification \o <<EditingTask(linking, cap)>>

\* CrewTasks with the Link tasks submitted before the Enrich tasks
CrewTasksLinkFirst(ver, items, cap) ==
    LinkFirst(EnrichmentTasks(items, cap), VerificationTasks(ver, items, cap),
              LinkingTasks(ver, items, cap), cap)

\* enrichment_tasks + verification_tasks + linking_tasks + [editing_task]
AllTasks(enrichment, verification, linking, cap) ==
    enrichment \o verification \o linking \o <<EditingTask(linking, cap)>>

\* Crew(tasks=enrichment_tasks + verification_tasks + linking_tasks + [edit])
CrewTasks(ver, items, cap) ==
    AllTasks(EnrichmentTasks(items, cap), VerificationTasks(ver, items, cap),
             LinkingTasks(ver, items, cap), cap)

TaskToSectionMap(items) ==
    [k \in 1..Len(items) |-> [section_id |-> items[k].id, section_data |-> items[k]]]

IndexOf(ts, tid) == CHOOSE i \in 1..Len(ts) : TaskId(ts[i]) = tid

\* every task of the context of ts[i] has produced its output
DepsDone(ts, outp, i) == \A d \in ts[i].context : outp[IndexOf(ts, d)] # NoOutput

(***************************************************************************)
(* enhance_content: guard, manual reassembly, recovery                     *)
(***************************************************************************)
HasSection(secs, id) == \E k \in 1..Len(secs) : secs[k].id = id

\* sections.get(sec_id, {}).get("content", "").strip()
OrigContent(secs, id) ==
    IF HasSection(secs, id)
    THEN Strip(secs[CHOOSE k \in 1..Len(secs) : secs[k].id = id].content)
    ELSE <<>>

IsPlaceholder(content) ==
    StartsWith(content, PlaceholderMark) \/ Len(content) < MinSectionLength

\* ReplacedBy without the test that the improved content is a placeholder
ReplacedWhenOriginal(content, original) == original # <<>>

\* the section of the improved document is replaced by the original one
ReplacedBy(content, original) == IsPlaceholder(content) /\ original # <<>>

Replaced(secs, sec) ==
    ReplacedBy(Strip(sec.content), OrigContent(secs, sec.id))

\* the section after the loop of the guard has visited it
Repair(secs, sec) ==
    IF Replaced(secs, sec)
    THEN [sec EXCEPT !.content = OrigContent(secs, sec.id)]
    ELSE sec

\* the guard on the sections improved_sections of the improved document
GuardSections(improved, secs, improved_sections) ==
    IF \E k \in 1..Len(improved_sections) : Replaced(secs, improved_sections[k])
    THEN Reassemble([k \in 1..Len(improved_sections) |->
                        Repair(secs, improved_sections[k])])
    ELSE improved

\* the post-processing block of src/lib/enhancer.py
Guard(improved, secs) == GuardSections(improved, secs, ParseSections(improved))

\* Missing, had the loop adding the untreated sections been forgotten
MissingNone(secs, done) == <<>>

\* the sections of secs whose id is not among those of done
Missing(secs, done) ==
    SelectSeq(secs, LAMBDA sec : ~HasSection(done, sec.id))

\* LinkOutput, had the recovery read the outputs of the Enrich tasks
EnrichOutput(ts, outp, k) == outp[IndexOf(ts, <<"Enrich", k>>)]

LinkOutput(ts, outp, k) == outp[IndexOf(ts, <<"Link", k>>)]

\* extract_final_content(task.output) raises on an output that is None
ManualRaises(ts, map, outp) ==
    \E k \in 1..Len(map) : LinkOutput(ts, outp, k) = NoOutput

\* the sections treated by a chain, then the sections without one
WithMissing(secs, improved) == Reassemble(improved \o Missing(secs, improved))

\* task_info["section_data"] is the dict object of the snapshot itself; the
\* two paths write the new content into a copy of it (.copy())
SectionDataAliased == FALSE

SectionDataCopied == TRUE

\* the snapshot after the contents of the sections written were assigned
\* through the section_data of the mapping
SnapshotAfter(secs, written) ==
    IF SectionDataCopied THEN secs
    ELSE [k \in 1..Len(secs) |->
            IF HasSection(written, secs[k].id)
            THEN written[CHOOSE j \in 1..Len(written) : written[j].id = secs[k].id]
            ELSE secs[k]]

\* improved_sections of the manual reassembly, before the missing sections
ManualSections(ts, map, outp) ==
    [k \in 1..Len(map) |->
        [map[k].section_data EXCEPT
            !.content = ExtractFinalContent(LinkOutput(ts, outp, k))]]

\* ManualReassembly, had the outputs of the Link tasks been left unread
ManualKeepsOriginal(secs, ts, map, outp) ==
    WithMissing(secs, [k \in 1..Len(map) |-> map[k].section_data])

\* the manual reassembly of the try block
ManualReassembly(secs, ts, map, outp) ==
    WithMissing(secs, ManualSections(ts, map, outp))

\* task.output is set and not empty
HasOutput(ts, outp, k) ==
    LinkOutput(ts, outp, k) # NoOutput /\ LinkOutput(ts, outp, k) # <<>>

\* WithTaskContent without the test on the extracted content
WithAnyTaskContent(section_data, task_content) ==
    [section_data EXCEPT !.content = task_content]

\* the section of the recovery path, from the content extracted for it
WithTaskContent(section_data, task_content) ==
    IF task_content # <<>> /\ Len(task_content) > MinTaskContentLength
    THEN [section_data EXCEPT !.content = task_content]
    ELSE section_data

\* the content the recovery path gives the section of Link task k
RecoveredSection(ts, map, outp, k) ==
    WithTaskContent(map[k].section_data,
                    ExtractFinalContent(LinkOutput(ts, outp, k)))

\* the Link tasks that have an output, in the order of linking_tasks
TasksWithOutput(ts, map, outp) ==
    SelectSeq([k \in 1..Len(map) |-> k], LAMBDA k : HasOutput(ts, outp, k))

\* improved_sections of the recovery, before the missing sections
RecoveredSections(ts, map, outp, ks) ==
    [j \in 1..Len(ks) |-> RecoveredSection(ts, map, outp, ks[j])]

\* the sections recovered from the Link tasks ks that have an output
RecoveredFrom(secs, ts, map, outp, ks) ==
    WithMissing(secs, RecoveredSections(ts, map, outp, ks))

\* recovered_content of the except block
Recovered(secs, ts, map, outp) ==
    RecoveredFrom(secs, ts, map, outp, TasksWithOutput(ts, map, outp))

\* RecoveryAccepted without the comparison of lengths
RecoveryAcceptedNonEmpty(recovered, md) == recovered # <<>>

\* RecoveryAccepted with a comparison that accepts exactly half the length
RecoveryAcceptedFromHalf(recovered, md) ==
    recovered # <<>> /\ 2 * Len(recovered) >= Len(md)

\* recovered_content and len(recovered_content) > len(markdown_content) / 2
RecoveryAccepted(recovered, md) ==
    recovered # <<>> /\ 2 * Len(recovered) > Len(md)

\* the text the try block holds after extraction and (src/lib) the guard
Improved(ver, secs, result_text) ==
    IF ver = "src_lib" THEN Guard(ExtractFinalContent(result_text), secs)
    ELSE ExtractFinalContent(result_text)

NeedsManual(improved) == improved = <<>> \/ Len(improved) < MinResultLength

\* CaughtByHandler, had the call of the capability been left outside the try
CaughtByHandlerPostOnly(where) == where = "post"

\* the except clause of enhance_content encloses the call of the capability
\* ("kickoff") and the processing of its result ("post")
CaughtByHandler(where) == where \in {"kickoff", "post"}

(***************************************************************************)
(* Actions of the orchestrator                                             *)
(***************************************************************************)
\* ContentEnhancer.__init__: refuses an invalid configuration, binds the
\* capability, and fails when the simplified capability cannot be built either
Construct ==
    /\ pc = "new"
    /\ config' = MakeConfig(api_key, model, env_api_key, env_model)
    /\ IF ~Validate(config')
       THEN pc' = "refused" /\ llm' = NoLLM
       ELSE \E llmRaises \in BOOLEAN, fallbackRaises \in BOOLEAN :
               IF llmRaises /\ fallbackRaises
               THEN pc' = "failed" /\ llm' = NoLLM
               ELSE pc' = "ready" /\ llm' = BoundLLM(config', llmRaises)
    /\ UNCHANGED <<version, api_key, model, env_api_key, env_model,
                   markdown_content, sections, tasks, task_to_section_map,
                   output, running, started, result, outcome, path,
                   recovered_content, textVars, toolVars, creatorVars>>

\* the crew built for the sections secs
BuildCrew(secs, items) ==
    /\ sections' = secs
    /\ tasks' = CrewTasks(version, items, llm)
    /\ task_to_section_map' = TaskToSectionMap(items)
    /\ output' = [i \in 1..(Len(items) * (IF version = "lib" THEN 3 ELSE 2) + 1)
                    |-> NoOutput]

\* the chains built for the sections secs
BuildFor(secs) == BuildCrew(secs, ProcessedItems(version, secs))

\* enhance_content up to the construction of the crew
BeginEnhance ==
    /\ pc = "ready"
    /\ BuildFor(ParseSections(markdown_content))
    /\ pc' = "kickoff"
    /\ UNCHANGED <<version, api_key, model, env_api_key, env_model, config, llm,
                   markdown_content, running, started, result, outcome, path,
                   recovered_content, textVars, toolVars, creatorVars>>

\* Process.sequential: the capability starts the next task of crew.tasks
StartTask ==
    /\ pc = "kickoff"
    /\ running = 0
    /\ Len(started) < Len(tasks)
    /\ running' = Len(started) + 1
    /\ started' = Append(started, Len(started) + 1)
    /\ UNCHANGED <<pc, version, api_key, model, env_api_key, env_model, config,
                   llm, markdown_content, sections, tasks, task_to_section_map,
                   output, result, outcome, path, recovered_content, textVars, toolVars, creatorVars>>

OutputsFor(t) ==
    IF t.kind = "Link" THEN LinkOutputs
    ELSE IF t.kind = "Edit" THEN EditOutputs(markdown_content)
    ELSE {StageOutput}

\* the running task produces its output; kickoff returns after the last one
TaskCompletes ==
    /\ pc = "kickoff"
    /\ running # 0
    /\ \E o \in OutputsFor(tasks[running]) :
          output' = [output EXCEPT ![running] = o]
    /\ running' = 0
    /\ pc' = IF running = Len(tasks) THEN "post" ELSE "kickoff"
    /\ UNCHANGED <<version, api_key, model, env_api_key, env_model, config, llm,
                   markdown_content, sections, tasks, task_to_section_map,
                   started, result, outcome, path, recovered_content, textVars, toolVars, creatorVars>>

\* the running task raises and crew.kickoff() propagates the exception
TaskRaises ==
    /\ pc = "kickoff"
    /\ running # 0
    /\ running' = 0
    /\ IF CaughtByHandler("kickoff")
       THEN pc' = "except" /\ outcome' = outcome
       ELSE pc' = "done" /\ outcome' = "raised"
    /\ UNCHANGED <<version, api_key, model, env_api_key, env_model, config, llm,
                   markdown_content, sections, tasks, task_to_section_map,
                   output, started, result, path, recovered_content, textVars, toolVars, creatorVars>>

\* what the try block does with the improved text: returns it, returns the
\* manual reassembly, or raises in the manual reassembly
TryOutcome(improved, secs, ts, map, outp) ==
    IF ~NeedsManual(improved)
    THEN [raises |-> FALSE, path |-> "edit", text |-> Strip(improved),
          written |-> <<>>]
    ELSE IF ManualRaises(ts, map, outp)
    THEN [raises |-> TRUE, path |-> "none", text |-> <<>>, written |-> <<>>]
    ELSE [raises |-> FALSE, path |-> "manual",
          text |-> Strip(ManualReassembly(secs, ts, map, outp)),
          written |-> ManualSections(ts, map, outp)]

\* the return of the try block, or the exception on its way out
Leave(o) ==
    /\ pc' = IF o.raises /\ CaughtByHandler("post") THEN "except" ELSE "done"
    /\ result' = IF o.raises THEN result ELSE o.text
    /\ path' = IF o.raises THEN path ELSE o.path
    /\ outcome' = IF ~o.raises THEN "returned"
                  ELSE IF CaughtByHandler("post") THEN outcome ELSE "raised"
    /\ sections' = SnapshotAfter(sections, o.written)

\* the try block after kickoff: extraction, guard, manual reassembly, return
PostProcess ==
    /\ pc = "post"
    /\ Leave(TryOutcome(Improved(version, sections, output[Len(tasks)]),
                        sections, tasks, task_to_section_map, output))
    /\ UNCHANGED <<version, api_key, model, env_api_key, env_model, config, llm,
                   markdown_content, tasks, task_to_section_map,
                   output, running, started, recovered_content, textVars, toolVars, creatorVars>>

\* the return of the except block
Handle(recovered, md) ==
    /\ recovered_content' = recovered
    /\ result' = IF RecoveryAccepted(recovered, md) THEN Strip(recovered) ELSE md
    /\ path' = IF RecoveryAccepted(recovered, md) THEN "recovered" ELSE "original"

\* the except block: recovery from the Link outputs, else the original document
Recover ==
    /\ pc = "except"
    /\ Handle(Recovered(sections, tasks, task_to_section_map, output),
              markdown_content)
    /\ sections' = SnapshotAfter(sections,
                        RecoveredSections(tasks, task_to_section_map, output,
                            TasksWithOutput(tasks, task_to_section_map, output)))
    /\ outcome' = "returned"
    /\ pc' = "done"
    /\ UNCHANGED <<version, api_key, model, env_api_key, env_model, config, llm,
                   markdown_content, tasks, task_to_section_map,
                   output, running, started, textVars, toolVars, creatorVars>>

(***************************************************************************)
(* The section model applied to one text                                   *)
(***************************************************************************)
Parse ==
    /\ step = "input"
    /\ parsed' = ParseSections(text)
    /\ step' = "parsed"
    /\ UNCHANGED <<text, out, out2, pipeVars, toolVars, creatorVars>>

ReassembleParsed ==
    /\ step = "parsed"
    /\ out' = Reassemble(parsed)
    /\ step' = "reassembled"
    /\ UNCHANGED <<text, parsed, out2, pipeVars, toolVars, creatorVars>>

Extract ==
    /\ step = "input"
    /\ out' = ExtractFinalContent(text)
    /\ step' = "extracted"
    /\ UNCHANGED <<text, parsed, out2, pipeVars, toolVars, creatorVars>>

ExtractAgain ==
    /\ step = "extracted"
    /\ out2' = ExtractFinalContent(out)
    /\ step' = "extracted2"
    /\ UNCHANGED <<text, parsed, out, pipeVars, toolVars, creatorVars>>

\* the orders in which a caller may have inserted n sections in the mapping
Orders(n) == {f \in [1..n -> 1..n] : \A i, j \in 1..n : f[i] = f[j] => i = j}

\* the position a caller may have recorded for the preamble
IntroPositions == {DefaultPosition, 0}

\* the mapping with its sections inserted in the order f and the preamble
\* given the position pos
Arranged(secs, f, pos) ==
    [k \in 1..Len(secs) |->
        IF secs[f[k]].id = IntroId
        THEN [secs[f[k]] EXCEPT !.original_position = pos]
        ELSE secs[f[k]]]

\* a caller builds a mapping of the same sections in another insertion order
Rearrange ==
    /\ step = "parsed"
    /\ \E f \in Orders(Len(parsed)), pos \in IntroPositions :
          parsed' = Arranged(parsed, f, pos)
    /\ step' = "rearranged"
    /\ UNCHANGED <<text, out, out2, pipeVars, toolVars, creatorVars>>

ReassembleRearranged ==
    /\ step = "rearranged"
    /\ out' = Reassemble(parsed)
    /\ step' = "reassembled2"
    /\ UNCHANGED <<text, parsed, out2, pipeVars, toolVars, creatorVars>>

(***************************************************************************)
(* Specifications                                                          *)
(***************************************************************************)
ScenarioDoc ==
    <<"#", " ", "T", "i", "t", "l", "e", "\n", "\n",
      "#", "#", " ", "I", "n", "t", "r", "o", "\n", "\n",
      "H", "e", "l", "l", "o", ".", "\n", "\n",
      "#", "#", " ", "F", "a", "c", "t", "s", "\n", "\n", "A", ".", "\n">>

\* a document twice as long as what the recovery rebuilds from a Link output
\* of eleven characters
HalfDoc == <<HASH, SP, "T", NL, NL>> \o Rep("h", 25)

Fragments == { <<HASH>>, <<SP>>, <<NL>>, <<"a">>, <<TICK>>, Fence, EndTag, MarkdownTag }

RECURSIVE Concat(_)
Concat(parts) == IF parts = <<>> THEN <<>> ELSE Head(parts) \o Concat(Tail(parts))

FragTexts == { Concat(fs) : fs \in UNION { [1..n -> Fragments] : n \in 0..MaxFrags } }

\* the reserved key of the preamble, used as the text of a heading
ReservedName == <<"_", "i", "n", "t", "r", "o", "_">>
ReservedDoc == Preface \o <<NL, HASH, SP>> \o ReservedName \o <<NL>> \o Hello

\* two fenced blocks, the second one longer, and the other way round
TwoBlocks == Fence \o <<"a">> \o Fence \o <<NL>> \o Fence \o <<"b", "c", "d">> \o Fence
TwoBlocksLongFirst == Fence \o <<"b", "c", "d">> \o Fence \o <<NL>> \o Fence \o <<"a">> \o Fence

ExtraTexts == {ScenarioDoc, ReservedDoc, TwoBlocks, TwoBlocksLongFirst}

TextInputs == FragTexts \cup Documents \cup ExtraTexts

IdleText ==
    /\ text = <<>> /\ parsed = <<>> /\ out = NoOutput /\ out2 = NoOutput
    /\ step = "idle"

\* a request the tool call did not make
Unused == "unused"

NoCallYet ==
    [op |-> "none", title |-> "", first |-> Unused, search |-> Unused,
     second |-> Unused, load |-> Unused, net |-> 0, repeat |-> FALSE,
     raised |-> FALSE, result |-> [type |-> "none", value |-> <<>>]]

\* no tool has been called
IdleTools ==
    /\ search_cache = {} /\ page_cache = {} /\ summary_cache = {}
    /\ content_loaded = {} /\ looked_up = {}
    /\ last = NoCallYet

IdleCreator ==
    /\ doc_title = <<>> /\ subject = <<>> /\ instructions = <<>>
    /\ kickoff_result = NoOutput /\ created = NoOutput
    /\ creator_step = "idle"

FreshRun ==
    /\ pc = "new"
    /\ config = NoConfig /\ llm = NoLLM
    /\ sections = <<>> /\ tasks = <<>> /\ task_to_section_map = <<>>
    /\ output = <<>> /\ running = 0 /\ started = <<>>
    /\ result = NoOutput /\ outcome = "none" /\ path = "none"
    /\ recovered_content = NoOutput

\* runs of the two orchestrators over the sampled documents
Init ==
    /\ FreshRun
    /\ IdleText
    /\ IdleTools
    /\ IdleCreator
    /\ version \in {"lib", "src_lib"}
    /\ api_key \in {None, "sk-arg"}
    /\ model = None
    /\ env_api_key = None
    /\ env_model = None
    /\ markdown_content \in Documents \cup {ScenarioDoc, HalfDoc}

Next ==
    \/ Construct
    \/ BeginEnhance
    \/ StartTask
    \/ TaskCompletes
    \/ TaskRaises
    \/ PostProcess
    \/ Recover

Spec == Init /\ [][Next]_vars

\* every configuration of the constructor, one document
CtorInit ==
    /\ FreshRun
    /\ IdleText
    /\ IdleTools
    /\ IdleCreator
    /\ version \in {"lib", "src_lib"}
    /\ api_key \in {None, "", "sk-arg"}
    /\ model \in {None, "model-arg"}
    /\ env_api_key \in {None, "sk-env"}
    /\ env_model \in {None, "model-env"}
    /\ markdown_content = ScenarioDoc

SpecCtor == CtorInit /\ [][Next]_vars

\* a preamble and six headed sections, every one with a body
CapDoc == Doc(Preface, [k \in 1..(MaxProcessedSections + 1) |-> Hello], FALSE)

\* the orchestrator of src/lib, which takes five sections, on that document
CapInit ==
    /\ FreshRun
    /\ IdleText
    /\ IdleTools
    /\ IdleCreator
    /\ version = "lib"
    /\ api_key \in {None, "sk-arg"}
    /\ model = None
    /\ env_api_key = None
    /\ env_model = None
    /\ markdown_content = CapDoc

SpecCap == CapInit /\ [][Next]_vars

\* the pure functions of the section model over the sampled texts
TextInit ==
    /\ pc = "idle"
    /\ version = "lib"
    /\ api_key = None /\ model = None /\ env_api_key = None /\ env_model = None
    /\ config = NoConfig /\ llm = NoLLM
    /\ markdown_content = <<>>
    /\ sections = <<>> /\ tasks = <<>> /\ task_to_section_map = <<>>
    /\ output = <<>> /\ running = 0 /\ started = <<>>
    /\ result = NoOutput /\ outcome = "none" /\ path = "none"
    /\ recovered_content = NoOutput
    /\ text \in TextInputs
    /\ parsed = <<>> /\ out = NoOutput /\ out2 = NoOutput
    /\ step = "input"
    /\ IdleTools
    /\ IdleCreator

TextNext ==
    \/ Parse
    \/ ReassembleParsed
    \/ Extract
    \/ ExtractAgain
    \/ Rearrange
    \/ ReassembleRearranged

SpecText == TextInit /\ [][TextNext]_vars

(***************************************************************************)
(* The lookup tools (tools.py of src/lib and of src/src/lib)               *)
(***************************************************************************)
\* the title the agents ask for, and the title the service's search gives first
Titles == {"A"}
FirstMatch == "B"

\* wikipedia.exceptions.PageError and DisambiguationError
LookupErrors == {"PageError", "DisambiguationError"}
\* what one request for a page or a summary can do: succeed, raise one of the
\* two lookup errors, raise anything else
Outcomes == {"ok", "Error"} \cup LookupErrors
\* what one search can do: raise, find nothing, find FirstMatch
SearchOutcomes == {"Error", "empty", "found"}
LoadOutcomes == {"ok", "Error"}
\* the answers of the service to the requests of one tool call
Draws == [first : Outcomes, search : SearchOutcomes, second : Outcomes,
          load : LoadOutcomes]

MatchesOf(found) == IF found = "found" THEN <<FirstMatch>> ELSE <<>>

\* the value cached under a key in a set of (key, value) pairs
Cached(cache, key) == \E e \in cache : e[1] = key
CachedValue(cache, key) == (CHOOSE e \in cache : e[1] = key)[2]

\* the four caches of the process
Caches ==
    [searches |-> search_cache, pages |-> page_cache,
     summaries |-> summary_cache, loaded |-> content_loaded]

\* a call that has not asked the service anything yet
Quiet(c) ==
    [exc |-> "none", value |-> <<>>, net |-> 0, first |-> Unused,
     search |-> Unused, second |-> Unused, load |-> Unused, caches |-> c]

\* src/lib: wikipedia.search(query, results=results)
SearchDirect(c, w) ==
    [Quiet(c) EXCEPT !.net = 1, !.search = w.search,
                     !.exc = IF w.search = "Error" THEN "Error" ELSE "none",
                     !.value = MatchesOf(w.search)]

\* src/src/lib: _cached_search under lru_cache, which keeps returned values only
CachedSearch(c, query, w) ==
    IF Cached(c.searches, query)
    THEN [Quiet(c) EXCEPT !.search = "cached",
                          !.value = CachedValue(c.searches, query)]
    ELSE IF w.search = "Error"
    THEN [Quiet(c) EXCEPT !.net = 1, !.search = "Error", !.exc = "Error"]
    ELSE [Quiet(c) EXCEPT !.net = 1, !.search = w.search,
                          !.value = MatchesOf(w.search),
                          !.caches.searches = @ \cup {<<query, MatchesOf(w.search)>>}]

\* src/lib: wikipedia.summary(page_title, sentences=sentences)
SummaryDirect(c, page_title, w) ==
    [Quiet(c) EXCEPT !.net = 1, !.first = w.first,
                     !.exc = IF w.first = "ok" THEN "none" ELSE w.first,
                     !.value = IF w.first = "ok" THEN <<"summary", page_title>>
                               ELSE <<>>]

\* src/src/lib: the search fallback of _cached_summary
SummaryFallback(c, page_title, w) ==
    IF w.search = "Error"
    THEN [Quiet(c) EXCEPT !.net = 2, !.first = w.first, !.search = "Error",
                          !.exc = "Error"]
    ELSE IF w.search = "empty"
    THEN [Quiet(c) EXCEPT !.net = 2, !.first = w.first, !.search = "empty",
                          !.exc = w.first]
    ELSE IF w.second = "ok"
    THEN [Quiet(c) EXCEPT !.net = 3, !.first = w.first, !.search = "found",
                          !.second = "ok",
                          !.value = <<"summary", FirstMatch>>,
                          !.caches.summaries = @ \cup {<<page_title, FirstMatch>>}]
    ELSE [Quiet(c) EXCEPT !.net = 3, !.first = w.first, !.search = "found",
                          !.second = w.second, !.exc = w.first]

\* src/src/lib: _cached_summary under lru_cache
CachedSummary(c, page_title, w) ==
    IF Cached(c.summaries, page_title)
    THEN [Quiet(c) EXCEPT !.first = "cached",
                          !.value = <<"summary", CachedValue(c.summaries, page_title)>>]
    ELSE IF w.first = "ok"
    THEN [Quiet(c) EXCEPT !.net = 1, !.first = "ok",
                          !.value = <<"summary", page_title>>,
                          !.caches.summaries = @ \cup {<<page_title, page_title>>}]
    ELSE IF w.first \in LookupErrors
    THEN SummaryFallback(c, page_title, w)
    ELSE [Quiet(c) EXCEPT !.net = 1, !.first = w.first, !.exc = w.first]

\* src/lib: wikipedia.page(page_title), a new page object at every call
PageDirect(c, page_title, w) ==
    [Quiet(c) EXCEPT !.net = 1, !.first = w.first,
                     !.exc = IF w.first = "ok" THEN "none" ELSE w.first,
                     !.value = <<page_title>>]

\* src/src/lib: _cached_page under lru_cache; drawn is what the service does
\* when it is asked
CachedPage(c, page_title, how, drawn) ==
    IF page_title \in c.caches.pages
    THEN [c EXCEPT !.value = <<page_title>>, ![how] = "cached"]
    ELSE IF drawn = "ok"
    THEN [c EXCEPT !.net = @ + 1, ![how] = "ok", !.value = <<page_title>>,
                   !.caches.pages = @ \cup {page_title}]
    ELSE [c EXCEPT !.net = @ + 1, ![how] = drawn, !.exc = drawn]

\* src/src/lib: the except branch of _get_page_safe; p is the failed lookup
PageFallback(p, w) ==
    IF w.search = "Error"
    THEN [p EXCEPT !.net = @ + 1, !.search = "Error", !.exc = "Error"]
    ELSE IF w.search = "empty"
    THEN [p EXCEPT !.net = @ + 1, !.search = "empty"]
    ELSE CachedPage([p EXCEPT !.net = @ + 1, !.search = "found", !.exc = "none"],
                    FirstMatch, "second", w.second)

\* src/src/lib: _get_page_safe
PageOrFallback(p, w) ==
    IF p.exc \in LookupErrors THEN PageFallback(p, w) ELSE p

GetPageSafe(c, title, w) ==
    PageOrFallback(CachedPage(Quiet(c), title, "first", w.first), w)

\* the page object the tool works on
PageFor(c, page_title, w) ==
    IF version = "lib" THEN PageDirect(c, page_title, w)
    ELSE GetPageSafe(c, page_title, w)

\* page.content: fetched on the first access of a page object and kept in it
ContentOf(p, w) ==
    IF p.exc # "none" THEN p
    ELSE IF p.value[1] \in p.caches.loaded
    THEN [p EXCEPT !.load = "cached", !.value = <<"content", p.value[1]>>]
    ELSE IF w.load = "ok"
    THEN [p EXCEPT !.net = @ + 1, !.load = "ok",
                   !.value = <<"content", p.value[1]>>,
                   !.caches.loaded = IF version = "lib" THEN @
                                     ELSE @ \cup {p.value[1]}]
    ELSE [p EXCEPT !.net = @ + 1, !.load = "Error", !.exc = "Error"]

\* page.url: set when the page object is made
UrlOf(p) ==
    IF p.exc # "none" THEN p ELSE [p EXCEPT !.value = <<"url", p.value[1]>>]

\* except Exception: every exception of a tool body is caught
CaughtLookupErrorsOnly(exc) == exc \in LookupErrors
Caught(exc) == TRUE

\* what a tool returns from its except branch
EmptyFor(op) ==
    IF op = "search" THEN [type |-> "list", value |-> <<>>]
    ELSE [type |-> "str", value |-> <<>>]

Returned(op, r) ==
    IF r.exc = "none"
    THEN [type |-> IF op = "search" THEN "list" ELSE "str", value |-> r.value]
    ELSE IF Caught(r.exc) THEN EmptyFor(op)
    ELSE [type |-> "raised", value |-> <<>>]

\* one call of a tool: r is what its body did
ToolCall(op, title, r) ==
    /\ pc = "tools"
    /\ last' = [op |-> op, title |-> title, first |-> r.first,
                search |-> r.search, second |-> r.second, load |-> r.load,
                net |-> r.net, repeat |-> <<op, title>> \in looked_up,
                raised |-> (r.exc # "none" /\ ~Caught(r.exc)),
                result |-> Returned(op, r)]
    /\ search_cache' = r.caches.searches
    /\ page_cache' = r.caches.pages
    /\ summary_cache' = r.caches.summaries
    /\ content_loaded' = r.caches.loaded
    /\ looked_up' = looked_up \cup {<<op, title>>}
    /\ UNCHANGED <<pipeVars, textVars, creatorVars>>

search_wikipedia ==
    \E query \in Titles, w \in Draws :
        ToolCall("search", query,
                 IF version = "lib" THEN SearchDirect(Caches, w)
                 ELSE CachedSearch(Caches, query, w))

get_wikipedia_summary ==
    \E page_title \in Titles, w \in Draws :
        ToolCall("summary", page_title,
                 IF version = "lib" THEN SummaryDirect(Caches, page_title, w)
                 ELSE CachedSummary(Caches, page_title, w))

get_wikipedia_content ==
    \E page_title \in Titles, w \in Draws :
        ToolCall("content", page_title,
                 ContentOf(PageFor(Caches, page_title, w), w))

get_wikipedia_url ==
    \E page_title \in Titles, w \in Draws :
        ToolCall("url", page_title, UrlOf(PageFor(Caches, page_title, w)))

\* the agents of one process calling the tools of one of the two modules
ToolsInit ==
    /\ pc = "tools"
    /\ version \in {"lib", "src_lib"}
    /\ api_key = None /\ model = None /\ env_api_key = None /\ env_model = None
    /\ config = NoConfig /\ llm = NoLLM
    /\ markdown_content = <<>>
    /\ sections = <<>> /\ tasks = <<>> /\ task_to_section_map = <<>>
    /\ output = <<>> /\ running = 0 /\ started = <<>>
    /\ result = NoOutput /\ outcome = "none" /\ path = "none"
    /\ recovered_content = NoOutput
    /\ IdleText
    /\ IdleTools
    /\ IdleCreator

ToolsNext ==
    \/ search_wikipedia
    \/ get_wikipedia_summary
    \/ get_wikipedia_content
    \/ get_wikipedia_url

SpecTools == ToolsInit /\ [][ToolsNext]_vars

(***************************************************************************)
(* ContentCreator.create_content (src/src/lib/creator.py)                  *)
(***************************************************************************)
\* the letters str.lower() and str.upper() change in the texts used here
UpperLetters ==
    <<"A", "B", "C", "D", "E", "F", "G", "H", "I", "J", "K", "L", "M", "N",
      "O", "P", "Q", "R", "S", "T", "U", "V", "W", "X", "Y", "Z", "É">>
LowerLetters ==
    <<"a", "b", "c", "d", "e", "f", "g", "h", "i", "j", "k", "l", "m", "n",
      "o", "p", "q", "r", "s", "t", "u", "v", "w", "x", "y", "z", "é">>

LetterIndex(letters, c) ==
    IF \E i \in 1..Len(letters) : letters[i] = c
    THEN CHOOSE i \in 1..Len(letters) : letters[i] = c
    ELSE 0

LowerChar(c) ==
    IF LetterIndex(UpperLetters, c) = 0 THEN c
    ELSE LowerLetters[LetterIndex(UpperLetters, c)]
UpperChar(c) ==
    IF LetterIndex(LowerLetters, c) = 0 THEN c
    ELSE UpperLetters[LetterIndex(LowerLetters, c)]

\* str.lower()
Lower(t) == [i \in 1..Len(t) |-> LowerChar(t[i])]

\* the keywords of _extract_sections_from_instructions, in the order of the list
Keywords ==
    << <<"h", "i", "s", "t", "o", "i", "r", "e">>,
       <<"c", "o", "n", "t", "e", "x", "t", "e">>,
       <<"a", "p", "p", "l", "i", "c", "a", "t", "i", "o", "n", "s">>,
       <<"u", "t", "i", "l", "i", "s", "a", "t", "i", "o", "n", "s">>,
       <<"a", "v", "a", "n", "t", "a", "g", "e", "s">>,
       <<"i", "n", "c", "o", "n", "v", "é", "n", "i", "e", "n", "t", "s">>,
       <<"d", "é", "f", "i", "s">>,
       <<"f", "u", "t", "u", "r">>,
       <<"t", "e", "c", "h", "n", "o", "l", "o", "g", "i", "e", "s">>,
       <<"m", "é", "t", "h", "o", "d", "e", "s">>,
       <<"e", "x", "e", "m", "p", "l", "e", "s">>,
       <<"é", "t", "u", "d", "e", "s", SP, "d", "e", SP, "c", "a", "s">> >>

\* keyword[0].upper() + keyword[1:]
Capitalised(keyword) == <<UpperChar(keyword[1])>> \o Tail(keyword)

RECURSIVE SectionsFrom(_, _)
SectionsFrom(keywords, text_lower) ==
    IF keywords = <<>> THEN <<>>
    ELSE (IF Contains(text_lower, Lower(Head(keywords)))
          THEN <<Capitalised(Head(keywords))>> ELSE <<>>)
            \o SectionsFrom(Tail(keywords), text_lower)

\* _extract_sections_from_instructions
ExtractSections(instr) ==
    IF instr = <<>> THEN <<>> ELSE SectionsFrom(Keywords, Lower(instr))

AgentPrefix == <<HASH, SP, "A", "g", "e", "n", "t", ":">>
FinalAnswerPrefix ==
    <<HASH, HASH, SP, "F", "i", "n", "a", "l", SP, "A", "n", "s", "w", "e",
      "r", ":">>
TitleMark == <<HASH, SP>>
MarkdownFence == <<TICK, TICK, TICK, "m", "a", "r", "k", "d", "o", "w", "n">>

HasArtefact(content) ==
    StartsWith(content, AgentPrefix) \/ StartsWith(content, FinalAnswerPrefix)

\* str.find: the first index (from 1) where pat starts in t, 0 when none
Find(t, pat) ==
    IF Contains(t, pat)
    THEN MinOf({i \in 1..Len(t) : StartsAt(t, i, pat)})
    ELSE 0

\* content[real_md_start:] when the artefact prefix is there
WithoutArtefact(content) ==
    IF HasArtefact(content) /\ Find(content, TitleMark) > 0
    THEN SubSeq(content, Find(content, TitleMark), Len(content))
    ELSE content

\* str.replace(pat, "")
RECURSIVE Remove(_, _)
Remove(t, pat) ==
    IF t = <<>> THEN <<>>
    ELSE IF StartsAt(t, 1, pat) THEN Remove(SubSeq(t, Len(pat) + 1, Len(t)), pat)
    ELSE <<Head(t)>> \o Remove(Tail(t), pat)

\* the cleaning of lines 92-101
CleanContent(content) == Remove(WithoutArtefact(content), MarkdownFence)

\* _is_valid_markdown
AnyContentValid(content) == TRUE
IsValidMarkdown(content) ==
    IF content = <<>> THEN FALSE
    ELSE Contains(content, TitleMark)

SecondLevel == <<HASH, HASH, SP>>
IntroductionTitle ==
    <<"I", "n", "t", "r", "o", "d", "u", "c", "t", "i", "o", "n">>
ConclusionTitle == <<"C", "o", "n", "c", "l", "u", "s", "i", "o", "n">>
Presents ==
    <<"C", "e", SP, "d", "o", "c", "u", "m", "e", "n", "t", SP, "p", "r",
      "é", "s", "e", "n", "t", "e", SP>>
InRelationWith ==
    <<SP, "e", "n", SP, "r", "e", "l", "a", "t", "i", "o", "n", SP, "a", "v",
      "e", "c", SP>>
AndItsAspects ==
    <<SP, "e", "t", SP, "s", "e", "s", SP, "d", "i", "f", "f", "é", "r", "e",
      "n", "t", "s", SP, "a", "s", "p", "e", "c", "t", "s", ".">>
SectionAddresses ==
    <<"C", "e", "t", "t", "e", SP, "s", "e", "c", "t", "i", "o", "n", SP,
      "a", "b", "o", "r", "d", "e", SP>>
SectionTreats ==
    <<"C", "e", "t", "t", "e", SP, "s", "e", "c", "t", "i", "o", "n", SP,
      "t", "r", "a", "i", "t", "e", SP, "d", "e", "s", SP, "a", "s", "p",
      "e", "c", "t", "s", SP, "l", "i", "é", "s", SP, "à", SP>>
ForTitle == <<SP, "p", "o", "u", "r", SP>>
HasPresented ==
    <<"C", "e", SP, "d", "o", "c", "u", "m", "e", "n", "t", SP, "a", SP, "p",
      "r", "é", "s", "e", "n", "t", "é", SP>>
AndMainAspects ==
    <<SP, "e", "t", SP, "s", "e", "s", SP, "a", "s", "p", "e", "c", "t", "s",
      SP, "p", "r", "i", "n", "c", "i", "p", "a", "u", "x", ".">>

Blank == <<NL, NL>>
FullStop == <<".">>

\* the two lines of one suggested section of the fallback document
FallbackSection(title, subj, section) ==
    SecondLevel \o section \o Blank
        \o (IF subj # <<>>
            THEN SectionAddresses \o Lower(section) \o InRelationWith \o subj
                    \o FullStop
            ELSE SectionTreats \o Lower(section) \o ForTitle \o title \o FullStop)
        \o Blank

RECURSIVE FallbackSections(_, _, _)
FallbackSections(title, subj, secs) ==
    IF secs = <<>> THEN <<>>
    ELSE FallbackSection(title, subj, Head(secs))
            \o FallbackSections(title, subj, Tail(secs))

\* _create_fallback_document
CreateFallbackDocument(title, subj, secs) ==
    TitleMark \o title \o Blank
        \o SecondLevel \o IntroductionTitle \o Blank
        \o (IF subj # <<>>
            THEN Presents \o title \o InRelationWith \o subj \o FullStop
            ELSE Presents \o title \o AndItsAspects)
        \o Blank
        \o FallbackSections(title, subj, secs)
        \o SecondLevel \o ConclusionTitle \o Blank
        \o (IF subj # <<>>
            THEN HasPresented \o title \o InRelationWith \o subj \o AndMainAspects
            ELSE HasPresented \o title \o AndMainAspects)

\* crew.kickoff() raised
KickoffRaised == <<"<raised>">>

\* what create_content returns for a result of the crew
ContentFor(title, subj, instr, res) ==
    IF res = KickoffRaised \/ res = <<>>
    THEN CreateFallbackDocument(title, subj, ExtractSections(instr))
    ELSE IF IsValidMarkdown(CleanContent(res)) THEN CleanContent(res)
    ELSE CreateFallbackDocument(title, subj, ExtractSections(instr))

ValidResult == <<HASH, SP, "T", NL, NL, "B", "o", "d", "y", ".">>
NoTitleResult == <<"B", "o", "d", "y", SP, "o", "n", "l", "y", ".">>
FencedResult ==
    <<TICK, TICK, TICK, "m", "a", "r", "k", "d", "o", "w", "n", NL, HASH, SP,
      "T", NL, "B", "o", "d", "y", ".", NL, TICK, TICK, TICK>>
FenceOnlyResult ==
    <<TICK, TICK, TICK, "m", "a", "r", "k", "d", "o", "w", "n">>
FinalAnswerResult ==
    <<HASH, HASH, SP, "F", "i", "n", "a", "l", SP, "A", "n", "s", "w", "e",
      "r", ":", NL, HASH, SP, "T", NL, "B", "o", "d", "y", ".">>
AgentResult ==
    <<HASH, SP, "A", "g", "e", "n", "t", ":", SP, "w", NL, "B", "o", "d",
      "y", ".">>
SplitMarkResult ==
    <<HASH, TICK, TICK, TICK, "m", "a", "r", "k", "d", "o", "w", "n", SP, "T">>

KickoffResults ==
    { KickoffRaised, <<>>, ValidResult, NoTitleResult, FencedResult,
      FenceOnlyResult, FinalAnswerResult, AgentResult, SplitMarkResult }

TwoKeywords ==
    <<"H", "i", "s", "t", "o", "i", "r", "e", ",", SP, "f", "u", "t", "u", "r">>
ReversedKeywords ==
    <<"f", "u", "t", "u", "r", SP, "p", "u", "i", "s", SP, "h", "i", "s",
      "t", "o", "i", "r", "e">>
AccentedKeywords ==
    <<"É", "t", "u", "d", "e", "s", SP, "d", "e", SP, "c", "a", "s", SP, "e",
      "t", SP, "d", "é", "f", "i", "s">>
NoKeyword == <<"r", "i", "e", "n">>

InstructionTexts == { <<>>, TwoKeywords, ReversedKeywords, AccentedKeywords, NoKeyword }
TitleTexts == { <<"T">>, <<"M", "d">> }
SubjectTexts == { <<>>, <<"S">> }

\* create_content, the run of the crew included
create_content ==
    /\ pc = "create"
    /\ creator_step = "input"
    /\ \E res \in KickoffResults :
          /\ kickoff_result' = res
          /\ created' = ContentFor(doc_title, subject, instructions, res)
    /\ creator_step' = "returned"
    /\ UNCHANGED <<pipeVars, textVars, toolVars, doc_title, subject, instructions>>

\* create_content on the sampled titles, subjects and instructions
CreateInit ==
    /\ pc = "create"
    /\ version = "src_lib"
    /\ api_key = None /\ model = None /\ env_api_key = None /\ env_model = None
    /\ config = NoConfig /\ llm = NoLLM
    /\ markdown_content = <<>>
    /\ sections = <<>> /\ tasks = <<>> /\ task_to_section_map = <<>>
    /\ output = <<>> /\ running = 0 /\ started = <<>>
    /\ result = NoOutput /\ outcome = "none" /\ path = "none"
    /\ recovered_content = NoOutput
    /\ IdleText
    /\ IdleTools
    /\ doc_title \in TitleTexts
    /\ subject \in SubjectTexts
    /\ instructions \in InstructionTexts
    /\ kickoff_result = NoOutput /\ created = NoOutput
    /\ creator_step = "input"

CreateNext == create_content

SpecCreate == CreateInit /\ [][CreateNext]_vars

(***************************************************************************)
(* Helpers of the properties                                               *)
(***************************************************************************)
\* the lines of a text
RECURSIVE SplitLines(_)
SplitLines(t) ==
    LET e == LineEnd(t, 1)
    IN  IF e > Len(t) THEN <<t>>
        ELSE <<SubSeq(t, 1, e - 1)>> \o SplitLines(SubSeq(t, e + 1, Len(t)))

\* a well-formed heading line: markers, a space, a non-blank text
IsHeadingLine(l) ==
    LET h == HashRun(l, 1)
    IN  /\ h >= 1
        /\ h < Len(l)
        /\ l[h + 1] = SP
        /\ Strip(SubSeq(l, h + 1, Len(l))) # <<>>

HeadingOfLine(l) == <<HashRun(l, 1), Strip(SubSeq(l, HashRun(l, 1) + 1, Len(l)))>>

\* a document made of well-formed heading lines and of body lines: a line
\* whose first visible character is the marker is a heading line
WellFormedDoc(t) ==
    \A k \in 1..Len(SplitLines(t)) :
        LET l == SplitLines(t)[k]
        IN  Strip(l) = <<>> \/ Strip(l)[1] # HASH \/ IsHeadingLine(l)

\* the (level, title) pairs of the heading lines, in order
DocHeadings(t) ==
    LET hs == SelectSeq(SplitLines(t), IsHeadingLine)
    IN  [k \in 1..Len(hs) |-> HeadingOfLine(hs[k])]

\* the non-whitespace characters of the body lines, in order
DocBody(t) ==
    LET bs == SelectSeq(SplitLines(t), LAMBDA l : ~IsHeadingLine(l))
    IN  SelectSeq(Concat(bs), LAMBDA c : ~IsSpace(c))

\* the (level, title) pairs the heading pattern finds in a text
HeadingPairs(t) ==
    LET hp == FindHeaders(t, 0)
    IN  [k \in 1..Len(hp) |-> <<hp[k].level, hp[k].text>>]

RECURSIVE IsSubseq(_, _)
IsSubseq(a, b) ==
    IF a = <<>> THEN TRUE
    ELSE IF b = <<>> THEN FALSE
    ELSE IF Head(a) = Head(b) THEN IsSubseq(Tail(a), Tail(b))
    ELSE IsSubseq(a, Tail(b))

\* the run ended and no task ever produced an output
TotalFailure ==
    /\ pc = "done"
    /\ \A i \in 1..Len(output) : output[i] = NoOutput

\* the run went through the except block
RecoveryRan == pc = "done" /\ recovered_content # NoOutput

(***************************************************************************)
(* Properties                                                              *)
(***************************************************************************)
\* C1 (as stated): when the capability raises before any task has produced an
\* output, enhance_content returns exactly the input document.
C1_ReturnsInputExactly ==
    TotalFailure => result = markdown_content

\* C1 (amended): when the capability raises before any task has produced an
\* output, enhance_content returns the reassembly of the parsed sections of
\* the input when that text is not empty and longer than half of the input,
\* and exactly the input otherwise.
C1_ReturnsReassemblyOrInput ==
    TotalFailure =>
        LET r == Reassemble(ParseSections(markdown_content))
        IN  result = IF r # <<>> /\ 2 * Len(r) > Len(markdown_content)
                     THEN r ELSE markdown_content

C1_Witness ==
    /\ TotalFailure
    /\ path = "recovered"
    /\ result # markdown_content
    /\ Len(sections) >= 2

\* C2: the text enhance_content returns is never shorter than half of the
\* input document, unless it is the input document itself.
C2_NeverShorterThanHalf ==
    (pc = "done" /\ outcome = "returned") =>
        (2 * Len(result) >= Len(markdown_content) \/ result = markdown_content)

\* C3: the (level, title) heading pairs of the input document are a
\* subsequence of the heading pairs of the text enhance_content returns.
C3_HeadingsPreserved ==
    (pc = "done" /\ outcome = "returned") =>
        IsSubseq(HeadingPairs(markdown_content), HeadingPairs(result))

\* C4: once the crew is kicked off, no exception of the capability or of the
\* processing of its result reaches the caller: a finished run has returned
\* a text.
C4_NeverRaises ==
    /\ outcome # "raised"
    /\ pc = "done" => (outcome = "returned" /\ result # NoOutput)

C4_Witness ==
    /\ pc = "done"
    /\ outcome = "returned"
    /\ path \in {"recovered", "original"}
    /\ started # <<>>

\* C5: on the recovery path, a recovered document shorter than half of the
\* input document is rejected and the input document is returned.
C5_ShortRecoveryRejected ==
    (RecoveryRan /\ 2 * Len(recovered_content) < Len(markdown_content)) =>
        (result = markdown_content /\ path = "original")

C5_Witness ==
    /\ RecoveryRan
    /\ recovered_content # <<>>
    /\ 2 * Len(recovered_content) < Len(markdown_content)
    /\ result = markdown_content

\* C6: every task that has been started had, when it started, the output of
\* every task of its context: Enrich before Verify before Link within a
\* section, and every Link before the Edit task.
C6_DependencyOrder ==
    /\ running # 0 => DepsDone(tasks, output, running)
    /\ \A j \in 1..Len(started) :
          \A d \in tasks[started[j]].context :
             \E i \in 1..(j - 1) :
                /\ started[i] = IndexOf(tasks, d)
                /\ output[started[i]] # NoOutput

C6_Witness ==
    /\ running # 0
    /\ tasks[running].kind = "Edit"
    /\ Cardinality(tasks[running].context) >= 2
    /\ version = "lib"
    /\ \E i \in 1..Len(tasks) : tasks[i].kind = "Verify"

\* C7: for a document made of well-formed heading lines and bodies, the
\* reassembly of its parsed sections has the same headings in the same order
\* and the same non-whitespace body content.
C7_RoundTrip ==
    (step = "reassembled" /\ WellFormedDoc(text)) =>
        /\ DocHeadings(out) = DocHeadings(text)
        /\ DocBody(out) = DocBody(text)

\* C8 (as stated): reassembling the sections Title, Intro, Facts separates
\* every two blocks, a heading and its body included, by one blank line.
ScenarioAsClaimed ==
    <<"#", " ", "T", "i", "t", "l", "e", "\n", "\n",
      "#", "#", " ", "I", "n", "t", "r", "o", "\n", "\n",
      "H", "e", "l", "l", "o", ".", "\n", "\n",
      "#", "#", " ", "F", "a", "c", "t", "s", "\n", "\n", "A", ".">>

C8_BlankLineBetweenBlocks ==
    (step = "reassembled" /\ text = ScenarioDoc) => out = ScenarioAsClaimed

\* C8 (amended): reassemble separates consecutive sections by exactly one
\* blank line and puts a body on the line that follows its heading, with no
\* blank line between them; the sections Title, Intro, Facts give
\* "# Title", blank line, "## Intro", "Hello.", blank line, "## Facts", "A.".
ScenarioReassembled ==
    <<"#", " ", "T", "i", "t", "l", "e", "\n", "\n",
      "#", "#", " ", "I", "n", "t", "r", "o", "\n",
      "H", "e", "l", "l", "o", ".", "\n", "\n",
      "#", "#", " ", "F", "a", "c", "t", "s", "\n", "A", ".">>

HeadingStartsLine(l) == HashRun(l, 1) >= 1 /\ HashRun(l, 1) < Len(l) /\ l[HashRun(l, 1) + 1] = SP

C8_SectionsSeparated ==
    step = "reassembled" =>
        /\ text = ScenarioDoc => out = ScenarioReassembled
        /\ LET ls == SplitLines(out)
           IN  \A i \in 1..Len(ls) :
                  HeadingStartsLine(ls[i]) =>
                     /\ i > 1 => (ls[i - 1] = <<>> /\ i > 2 /\ ls[i - 2] # <<>>)
                     /\ i < Len(ls) =>
                           \/ ls[i + 1] # <<>>
                           \/ (i + 2 <= Len(ls) /\ HeadingStartsLine(ls[i + 2]))

C8_Witness ==
    /\ step = "reassembled"
    /\ text = ScenarioDoc
    /\ Len(parsed) = 3
    /\ out = ScenarioReassembled

\* C9 (as stated): a constructed orchestrator is bound to exactly the
\* validated configured model and credential, and every task of a run is
\* issued under that capability.
Constructed == pc \in {"ready", "kickoff", "post", "except", "done"}

C9_BoundToConfigured ==
    Constructed =>
        /\ Validate(config)
        /\ llm = [model |-> config.model, api_key |-> config.api_key]
        /\ \A i \in 1..Len(tasks) : tasks[i].llm = llm

\* C9 (amended): the construction fails whenever no API credential is
\* configured; a constructed orchestrator holds the validated configuration
\* and is bound either to exactly the configured model and credential or,
\* when building that capability raised, to the fallback model without
\* credential; every task of a run is issued under the capability bound at
\* construction.
C9_BoundToConfiguredOrFallback ==
    /\ (~Truthy(api_key) /\ ~Truthy(env_api_key)) => pc \in {"new", "refused"}
    /\ Constructed =>
          /\ Validate(config)
          /\ config = MakeConfig(api_key, model, env_api_key, env_model)
          /\ llm \in { [model |-> config.model, api_key |-> config.api_key],
                       [model |-> FallbackModel, api_key |-> None] }
          /\ \A i \in 1..Len(tasks) : tasks[i].llm = llm

C9_Witness ==
    /\ pc = "kickoff"
    /\ running # 0
    /\ tasks[running].llm.model = FallbackModel
    /\ config.api_key = "sk-env"
    /\ config.model = "model-arg"

\* C10: on a text with at most one fenced block, extracting the final content
\* twice gives the same text as extracting it once.
C10_ExtractIdempotent ==
    (step = "extracted2" /\ Len(FindCodeBlocks(text, 1)) <= 1) => out2 = out

C10_Witness ==
    /\ step = "extracted2"
    /\ Len(FindCodeBlocks(text, 1)) = 1
    /\ out # <<>>
    /\ out # text
    /\ out2 = out

\* a line that opens a heading: markers, then white space or the end of the line
MarkerLine(l) ==
    /\ HashRun(l, 1) >= 1
    /\ (HashRun(l, 1) = Len(l) \/ IsSpace(l[HashRun(l, 1) + 1]))

\* the indexes of the lines of ls that open a heading, in order
MarkerIndexes(ls) == SelectSeq([i \in 1..Len(ls) |-> i], LAMBDA i : MarkerLine(ls[i]))

\* the trimmed text of the lines a+1 .. b-1 of ls
LinesBetween(ls, a, b) == Strip(Join(SubSeq(ls, a + 1, b - 1)))

\* the sections a reader finds in the lines ls: one per heading line, with its
\* level, its text and the body that runs to the next heading line or the end
SectionsByLines(ls, idx) ==
    [k \in 1..Len(idx) |->
        [level |-> HashRun(ls[idx[k]], 1),
         title |-> Strip(SubSeq(ls[idx[k]], HashRun(ls[idx[k]], 1) + 1, Len(ls[idx[k]]))),
         content |-> LinesBetween(ls, idx[k],
                        IF k < Len(idx) THEN idx[k + 1] ELSE Len(ls) + 1)]]

\* the text before the first heading line of ls, trimmed
PreambleByLines(ls, idx) ==
    LinesBetween(ls, 0, IF idx = <<>> THEN Len(ls) + 1 ELSE idx[1])

\* the sections of a mapping that are not the preamble, without their ids
RegularSections(secs) ==
    LET rs == SelectSeq(secs, LAMBDA sec : sec.id # IntroId)
    IN  [k \in 1..Len(rs) |->
            [level |-> rs[k].level, title |-> rs[k].title, content |-> rs[k].content]]

\* C11: parse_sections returns an empty mapping only for the empty text:
\* every text that is not empty parses into at least one section.
C11_EmptyOnlyForEmptyText ==
    (step = "parsed" /\ text # <<>>) => parsed # <<>>

\* C12: parse_sections yields one section per heading line of the text, in
\* order, with the level and the text of the heading and the body that runs
\* to the next heading or to the end; the end marker is never a section and
\* no heading of the text is dropped.
C12_OneSectionPerHeading ==
    step = "parsed" =>
        /\ RegularSections(parsed)
              = SectionsByLines(SplitLines(text), MarkerIndexes(SplitLines(text)))
        /\ \A k \in 1..Len(parsed) : parsed[k].id # IntroId =>
              /\ parsed[k].id = parsed[k].original_position
              /\ \A j \in 1..(k - 1) : parsed[j].id < parsed[k].id

RegularByPosition(secs) ==
    LET rs == SelectSeq(secs, LAMBDA sec : sec.id # IntroId)
        Rank(k) == Cardinality({j \in 1..Len(rs) :
                        rs[j].original_position < rs[k].original_position})
    IN  [p \in 1..Len(rs) |-> rs[CHOOSE k \in 1..Len(rs) : Rank(k) = p - 1]]

\* a heading line, the body when there is one, and an empty line
HeadedBlock(sec) ==
    Rep(HASH, sec.level) \o <<SP>> \o sec.title \o <<NL>>
        \o (IF sec.content # <<>> THEN sec.content \o <<NL>> ELSE <<>>) \o <<NL>>

\* the preamble without heading line, then the regular sections by position
ExpectedDocument(secs) ==
    LET intro == SelectSeq(secs, LAMBDA sec : sec.id = IntroId)
        rs == RegularByPosition(secs)
    IN  Strip((IF intro # <<>> THEN intro[1].content \o <<NL, NL>> ELSE <<>>)
                \o Concat([k \in 1..Len(rs) |-> HeadedBlock(rs[k])]))

\* C14: reassemble emits the preamble first, whatever position it records and
\* wherever it stands in the mapping, without heading line; then the other
\* sections in ascending original_position, each under a heading line made of
\* level markers, one space and the title.
C14_PreambleFirstThenByPosition ==
    step = "reassembled2" => out = ExpectedDocument(parsed)

C14_Witness ==
    /\ step = "reassembled2"
    /\ Len(parsed) = 3
    /\ parsed[3].id = IntroId
    /\ parsed[3].original_position = 0
    /\ parsed[1].original_position > parsed[2].original_position
    /\ StartsWith(out, Preface)

\* C15: when the text holds at least one fenced block,
\* extract_final_content returns the trimmed content of a block that no
\* other block exceeds in length; otherwise it returns the trimmed text.
C15_LongestBlockOrText ==
    step = "extracted" =>
        LET blocks == FindCodeBlocks(text, 1)
        IN  IF blocks = <<>> THEN out = Strip(text)
            ELSE \E k \in 1..Len(blocks) :
                    /\ \A j \in 1..Len(blocks) : Len(blocks[j]) <= Len(blocks[k])
                    /\ out = Strip(blocks[k])

C15_Witness ==
    /\ step = "extracted"
    /\ text = TwoBlocks
    /\ out = <<"b", "c", "d">>

\* the run returned from the try block of src/src/lib/enhancer.py without
\* the manual reassembly: the result is the output of the guard
GuardReturned ==
    pc = "done" /\ outcome = "returned" /\ path = "edit" /\ version = "src_lib"

\* the text handed to the guard: the final content of the Edit output
GuardInput == ExtractFinalContent(output[Len(tasks)])

\* a content the guard flags: a comment marker first, or under 20 characters
Flagged(content) ==
    \/ (Len(content) >= 4 /\ SubSeq(content, 1, 4) = <<"<", "!", "-", "-">>)
    \/ Len(content) < 20

\* the trimmed content of the section of the snapshot with the id of sec,
\* empty when the snapshot has none
OriginalOf(sec) ==
    IF \E j \in 1..Len(sections) : sections[j].id = sec.id
    THEN Strip(sections[CHOOSE j \in 1..Len(sections) : sections[j].id = sec.id].content)
    ELSE <<>>

ToRestore(sec) == Flagged(Strip(sec.content)) /\ OriginalOf(sec) # <<>>

\* the facts scenario: the title without body and under a placeholder, the
\* introduction improved, the facts replaced by a placeholder
ScenarioRepaired ==
    <<"#", " ", "T", "i", "t", "l", "e", "\n">> \o PlaceholderText \o <<"\n", "\n",
      "#", "#", " ", "I", "n", "t", "r", "o", "\n">> \o ImprovedText \o <<"\n", "\n",
      "#", "#", " ", "F", "a", "c", "t", "s", "\n", "A", ".">>

\* C16: the guard gives a section of the improved document the original
\* content exactly when the section is flagged and the original section of
\* the same id is not empty; the other sections keep their improved content;
\* when no section is replaced the improved document is returned as it is.
C16_GuardReplacesFlagged ==
    GuardReturned =>
        LET m == ParseSections(GuardInput)
        IN  /\ (\A k \in 1..Len(m) : ~ToRestore(m[k])) => result = GuardInput
            /\ (\E k \in 1..Len(m) : ToRestore(m[k])) =>
                  result = ExpectedDocument(
                      [k \in 1..Len(m) |->
                          IF ToRestore(m[k])
                          THEN [m[k] EXCEPT !.content = OriginalOf(m[k])]
                          ELSE m[k]])
            /\ (markdown_content = ScenarioDoc
                   /\ output[Len(tasks)] = PartlyImproved(ScenarioDoc))
                  => result = ScenarioRepaired

C16_Witness ==
    /\ GuardReturned
    /\ markdown_content = ScenarioDoc
    /\ output[Len(tasks)] = PartlyImproved(ScenarioDoc)
    /\ result = ScenarioRepaired

\* C17: every line of text of the improved document is still in the output
\* of the guard, but for the flagged contents the guard replaces.
C17_GuardKeepsContent ==
    GuardReturned =>
        LET m == ParseSections(GuardInput)
            ls == SplitLines(GuardInput)
        IN  \A i \in 1..Len(ls) :
               \/ Strip(ls[i]) = <<>>
               \/ Contains(result, Strip(ls[i]))
               \/ \E k \in 1..Len(m) :
                     ToRestore(m[k]) /\ Contains(m[k].content, Strip(ls[i]))

\* C18: no section of the returned document that corresponds to a non-empty
\* original section has a content that is empty, starts with a comment
\* marker or is under 20 characters, unless it is the original content.
C18_NoDegenerateSection ==
    (pc = "done" /\ outcome = "returned" /\ version = "src_lib") =>
        LET r == ParseSections(result)
        IN  \A k \in 1..Len(r) :
               (OriginalOf(r[k]) # <<>> /\ Flagged(Strip(r[k].content)))
                  => Strip(r[k].content) = OriginalOf(r[k])

\* the Link task recorded for the section sec, 0 when it has none
LinkTaskOf(sec) ==
    IF \E j \in 1..Len(task_to_section_map) :
           task_to_section_map[j].section_id = sec.id
    THEN CHOOSE j \in 1..Len(task_to_section_map) :
           task_to_section_map[j].section_id = sec.id
    ELSE 0

\* the snapshot with the content of every section that has a Link task
\* overwritten by the final content of the output of that task
Overwritten ==
    [k \in 1..Len(sections) |->
        IF LinkTaskOf(sections[k]) # 0
        THEN [sections[k] EXCEPT !.content =
                 ExtractFinalContent(LinkOutput(tasks, output, LinkTaskOf(sections[k])))]
        ELSE sections[k]]

\* C19: when the final text after the guard is empty or under 50 characters,
\* enhance_content returns the reassembly of the snapshot with the content
\* of every section that has a Link task overwritten by the extracted output
\* of the task, the other sections as they were.
C19_ManualReassembly ==
    (pc = "done" /\ outcome = "returned" /\ path \in {"edit", "manual"}) =>
        /\ path = "manual" <=>
              Len(Improved(version, sections, output[Len(tasks)])) < MinResultLength
        /\ path = "manual" => result = ExpectedDocument(Overwritten)

C19_Witness ==
    /\ pc = "done" /\ path = "manual"
    /\ Len(sections) = 3
    /\ Len(task_to_section_map) = 1
    /\ sections[1].id = IntroId
    /\ output[Len(tasks)] # <<>>
    /\ ExtractFinalContent(LinkOutput(tasks, output, 1)) = Rep("c", 25)
    /\ result # <<>>

\* the number of tasks of a kind
CountKind(kind) == Cardinality({i \in 1..Len(tasks) : tasks[i].kind = kind})

\* the sections the run takes, in the order it takes them, that have a body
WithBody ==
    SelectSeq(SectionItems(version, sections),
              LAMBDA sec : \E i \in 1..Len(sec.content) : ~IsSpace(sec.content[i]))

\* C20: the run builds one chain Enrich, Verify (src/lib only), Link per
\* section with a non-blank body and none for the others, records one
\* distinct section id per Link task, and builds one Edit task whose context
\* is the set of the Link tasks of all the chains.
C20_OneChainPerSection ==
    pc \in {"kickoff", "post", "except", "done"} =>
        LET n == Len(WithBody)
        IN  /\ CountKind("Enrich") = n
            /\ CountKind("Link") = n
            /\ CountKind("Verify") = IF version = "lib" THEN n ELSE 0
            /\ CountKind("Edit") = 1
            /\ Len(tasks) = CountKind("Enrich") + CountKind("Verify") + n + 1
            /\ tasks[Len(tasks)].kind = "Edit"
            /\ tasks[Len(tasks)].context = {<<"Link", k>> : k \in 1..n}
            /\ Len(task_to_section_map) = n
            /\ \A k \in 1..n :
                  /\ task_to_section_map[k].section_id = WithBody[k].id
                  /\ task_to_section_map[k].section_data = WithBody[k]
                  /\ \E i \in 1..Len(tasks) : TaskId(tasks[i]) = <<"Link", k>>
                  /\ \E i \in 1..Len(tasks) : TaskId(tasks[i]) = <<"Enrich", k>>
                  /\ \A j \in 1..n :
                        task_to_section_map[j].section_id
                            = task_to_section_map[k].section_id => j = k
            /\ \A i, j \in 1..Len(tasks) : TaskId(tasks[i]) = TaskId(tasks[j]) => i = j

C20_Witness ==
    /\ pc = "kickoff"
    /\ Len(sections) = 3
    /\ Len(WithBody) = 2
    /\ CountKind("Verify") = 2
    /\ Len(tasks) = 7

\* the ids of the sections that have a Link task
ChainedIds == {task_to_section_map[k].section_id : k \in 1..Len(task_to_section_map)}

\* the first n sections of the snapshot, which is in document order with
\* the preamble first
FirstInDocument(n) == SubSeq(sections, 1, Min(n, Len(sections)))

\* C21: with the cap of five sections, the sections that get a chain are the
\* first five sections of the document in document order, the preamble
\* being the first one when there is one; the sections after them get no task.
C21_FirstFiveInDocumentOrder ==
    (version = "lib" /\ pc \in {"kickoff", "post", "except", "done"}) =>
        ChainedIds = {FirstInDocument(MaxProcessedSections)[k].id :
                        k \in {j \in 1..Len(FirstInDocument(MaxProcessedSections)) :
                                  Strip(FirstInDocument(MaxProcessedSections)[j].content) # <<>>}}

StageRank(kind) ==
    CASE kind = "Enrich" -> 1 [] kind = "Verify" -> 2 [] kind = "Link" -> 3
      [] kind = "Edit" -> 4

\* no Link task has produced an output
NoLinkOutput ==
    \A i \in 1..Len(tasks) : tasks[i].kind = "Link" => output[i] = NoOutput

\* C25: the tasks are submitted stage by stage and run in that order; when
\* the capability raises before any Link task has produced its output, the
\* recovery returns the reassembly of the original sections or the input
\* document, without any content of an Enrich or Verify task.
C25_NoEnrichedContentBeforeLink ==
    /\ \A i, j \in 1..Len(tasks) :
          i < j => StageRank(tasks[i].kind) <= StageRank(tasks[j].kind)
    /\ \A j \in 1..Len(started) : started[j] = j
    /\ (RecoveryRan /\ NoLinkOutput) =>
          /\ recovered_content = ExpectedDocument(ParseSections(markdown_content))
          /\ result \in {recovered_content, markdown_content}
          /\ ~Contains(result, StageOutput)

C25_Witness ==
    /\ RecoveryRan
    /\ NoLinkOutput
    /\ \E i \in 1..Len(tasks) : tasks[i].kind = "Enrich" /\ output[i] = StageOutput
    /\ path = "recovered"

\* the content the recovery gives a section of the snapshot
RecoveredContentOf(sec) ==
    IF /\ LinkTaskOf(sec) # 0
       /\ LinkOutput(tasks, output, LinkTaskOf(sec)) # NoOutput
       /\ Len(ExtractFinalContent(LinkOutput(tasks, output, LinkTaskOf(sec)))) > 10
    THEN ExtractFinalContent(LinkOutput(tasks, output, LinkTaskOf(sec)))
    ELSE sec.content

\* C26: on the recovery path a section gets the extracted output of its Link
\* task only when the output is there and longer than 10 characters;
\* otherwise it keeps its original content; every section of the snapshot
\* is in the recovered document under its original heading.
C26_RecoveryKeepsOriginal ==
    RecoveryRan =>
        recovered_content =
            ExpectedDocument([k \in 1..Len(sections) |->
                [sections[k] EXCEPT !.content = RecoveredContentOf(sections[k])]])

C26_Witness ==
    /\ RecoveryRan
    /\ Len(task_to_section_map) = 2
    /\ LinkOutput(tasks, output, 1) = Rep("s", 10)
    /\ LinkOutput(tasks, output, 2) = Rep("b", 11)
    /\ Contains(recovered_content, Rep("b", 11))
    /\ ~Contains(recovered_content, Rep("s", 10))

\* C27: the content the guard restores into a flagged section of the
\* improved document is the original content of the section of the
\* snapshot that has the same level and title.
C27_RestoresSameHeading ==
    GuardReturned =>
        LET m == ParseSections(GuardInput)
        IN  \A k \in 1..Len(m) :
               ToRestore(m[k]) =>
                  \E j \in 1..Len(sections) :
                     /\ sections[j].level = m[k].level
                     /\ sections[j].title = m[k].title
                     /\ Strip(sections[j].content) = OriginalOf(m[k])

\* C28: on the recovery path the recovered document is returned if and only
\* if it is longer than half of the input document; at exactly half the
\* length it is rejected and the input document is returned.
C28_StrictlyMoreThanHalf ==
    RecoveryRan =>
        /\ path = "recovered" <=> 2 * Len(recovered_content) > Len(markdown_content)
        /\ path = "recovered" => result = Strip(recovered_content)
        /\ path # "recovered" => (path = "original" /\ result = markdown_content)

C28_Witness ==
    /\ RecoveryRan
    /\ recovered_content # <<>>
    /\ 2 * Len(recovered_content) = Len(markdown_content)
    /\ path = "original"
    /\ result = markdown_content

\* C22: when a summary, content or url lookup by the given title fails
\* with title not found or ambiguous, the tool searches for the title and
\* retries with the first result; it returns the empty string only when the
\* search fails or finds nothing or the retry fails.
C22_FallsBackToFirstResult ==
    (last.op \in {"summary", "content", "url"} /\ last.first \in LookupErrors) =>
        /\ last.search # Unused
        /\ last.result.value = <<>> =>
              \/ last.search \in {"Error", "empty"}
              \/ last.second \notin {"ok", "cached"}
              \/ last.load = "Error"
        /\ last.result.value # <<>> => last.result.value = <<last.op, FirstMatch>>

\* C23: a lookup with an operation and a title that were looked up before
\* in the process makes no request to the lookup service, whatever the
\* first lookup did.
C23_RepeatedLookupUsesNoNetwork ==
    (version = "src_lib" /\ last.repeat) => last.net = 0

\* a request of the last tool call failed for another reason than the title
ServiceFailed == "Error" \in {last.first, last.search, last.second, last.load}

\* C29: no tool raises to its caller; search returns a list and the three
\* others a string, and when a request to the lookup service fails the list
\* or the string is empty.
C29_ToolsNeverRaise ==
    last.op # "none" =>
        /\ ~last.raised
        /\ last.result.type = (IF last.op = "search" THEN "list" ELSE "str")
        /\ ServiceFailed => last.result.value = <<>>

C29_Witness ==
    /\ last.op = "content"
    /\ last.first \in LookupErrors /\ last.search = "found" /\ last.second = "Error"
    /\ last.result = [type |-> "str", value |-> <<>>]
    /\ <<"search", "A">> \in looked_up

\* the lines of a document that begin with a heading marker
HeadingLinesOf(t) == SelectSeq(SplitLines(t), LAMBDA l : l # <<>> /\ l[1] = HASH)

\* a keyword occurs in the instructions, whatever the case of their letters
Mentions(instr, keyword) ==
    \E i \in 1..Len(instr) :
        /\ i + Len(keyword) - 1 <= Len(instr)
        /\ \A j \in 1..Len(keyword) : LowerChar(instr[i + j - 1]) = keyword[j]

\* the heading lines of the fallback document: the title, Introduction, the
\* keywords the instructions mention in the order of the list, Conclusion
FallbackHeadings ==
    << TitleMark \o doc_title, SecondLevel \o IntroductionTitle >>
        \o [k \in 1..Len(SelectSeq(Keywords, LAMBDA w : Mentions(instructions, w))) |->
               SecondLevel
                 \o Capitalised(SelectSeq(Keywords, LAMBDA w : Mentions(instructions, w))[k])]
        \o << SecondLevel \o ConclusionTitle >>

IsFallbackDocument ==
    /\ StartsWith(created, TitleMark \o doc_title \o <<NL>>)
    /\ HeadingLinesOf(created) = FallbackHeadings

\* the crew gave a text
GaveText == kickoff_result # KickoffRaised /\ kickoff_result # <<>>

\* C30 as stated: create_content never raises and returns a document with a
\* heading marker: the result of the crew when it is non-empty and valid, the
\* fallback document otherwise.
C30_ResultOrFallback ==
    /\ creator_step \in {"idle", "input", "returned"}
    /\ creator_step = "returned" =>
          /\ Contains(created, TitleMark)
          /\ IF GaveText /\ Contains(kickoff_result, TitleMark)
             THEN created = kickoff_result
             ELSE IsFallbackDocument

\* the indexes of a text inside an occurrence of the markdown fence tag
InFence(t, i) ==
    \E b \in 1..Len(t) :
        StartsAt(t, b, MarkdownFence) /\ b <= i /\ i < b + Len(MarkdownFence)

\* the text without the occurrences of the markdown fence tag
WithoutFences(t) ==
    [k \in 1..Cardinality({i \in 1..Len(t) : ~InFence(t, i)}) |->
        t[CHOOSE i \in 1..Len(t) :
              /\ ~InFence(t, i)
              /\ Cardinality({j \in 1..i : ~InFence(t, j)}) = k]]

\* the text from its first heading marker on when it begins with an agent
\* artefact
FromFirstTitle(t) ==
    IF /\ StartsWith(t, AgentPrefix) \/ StartsWith(t, FinalAnswerPrefix)
       /\ \E i \in 1..Len(t) : StartsAt(t, i, TitleMark)
    THEN SubSeq(t, CHOOSE i \in 1..Len(t) :
                      /\ StartsAt(t, i, TitleMark)
                      /\ \A j \in 1..(i - 1) : ~StartsAt(t, j, TitleMark),
                Len(t))
    ELSE t

CleanedResult == WithoutFences(FromFirstTitle(kickoff_result))

\* C30 amended: create_content never raises and returns a document with a
\* heading marker: the result of the crew cleaned of a leading agent artefact
\* and of the markdown fence tags when the crew gave a text and the cleaned
\* text is valid, the fallback document otherwise.
C30_CleanedResultOrFallback ==
    /\ creator_step \in {"idle", "input", "returned"}
    /\ creator_step = "returned" =>
          /\ Contains(created, TitleMark)
          /\ IF GaveText /\ Contains(CleanedResult, TitleMark)
             THEN created = CleanedResult
             ELSE IsFallbackDocument

C30_Witness ==
    /\ creator_step = "returned"
    /\ kickoff_result = FencedResult
    /\ created # kickoff_result
    /\ Contains(kickoff_result, MarkdownFence)
    /\ ~Contains(created, MarkdownFence)
    /\ instructions = ReversedKeywords

====
